---- MODULE Spec2Model ----
(***************************************************************************)
(* Model of the Trigger audio-in component (src/src/models/trigger.py).   *)
(*                                                                         *)
(* Two threads of control touch the component's fields:                    *)
(*   - the asyncio event loop, which runs get_audio, close and the bodies  *)
(*     of the audio_generator coroutines (one per get_audio session);      *)
(*     generators interleave only at their await / yield points;           *)
(*   - the hearken listener thread, which calls listen_callback and, from  *)
(*     it, on_trigger_detected.  No lock guards the fields, so the three   *)
(*     assignments of on_trigger_detected (lines 219, 222, 223) and the    *)
(*     reads of the generator (lines 262, 266, 267) interleave freely.     *)
(*                                                                         *)
(* The recognizer, the upstream microphone and the consumer are the       *)
(* environment: the recognizer returns a text or raises, the upstream      *)
(* streams deliver chunks, end or fail, the consumer pulls or closes.      *)
(*                                                                         *)
(* Time is counted in ticks: the program's 1_000_000_000 ns (one second)   *)
(* are TicksPerSecond ticks, so that the timestamps of the examples fit    *)
(* the integers of the model checker.  A float number of seconds is kept   *)
(* as the exact fraction num/den.                                          *)
(***************************************************************************)
EXTENDS Integers, Sequences, FiniteSets, TLC

\* ------------------------------------------------------------------ bounds
TicksPerSecond == 2
\* live chunks the upstream live streams deliver at most, all together
MaxLive == 2
\* chunks one historical stream delivers at most
MaxHist == 2
\* the calls of on_trigger_detected: one trigger being replayed and one
\* arriving meanwhile
Triggers == {1, 2}

\* the get_audio sessions (one output stream, one generator each)
Sessions == {1, 2}

\* end timestamps (in seconds) the upstream microphone stamps its chunks with
StampSeconds == {8, 10}
\* 0 is the unset end timestamp
Stamps == {0} \cup {s * TicksPerSecond : s \in StampSeconds}

\* values of the source_microphone attribute: unset, or the name of a dependency
Microphones == {"", "mic"}
\* values of the trigger_word attribute, as sequences of characters
TriggerWords == {<< >>, <<"A", "b">>}
\* texts the recognizer returns
Texts == {<< >>, <<"a", "b">>, <<"x", "A", "B">>, <<"a", " ", "b">>}
\* speech segments the listener hands to listen_callback:
\* 0.25 s, 0.5 s, 1 s and 2 s of 16 kHz 16-bit audio
SegmentShapes ==
    { [len |-> 8000, sample_rate |-> 16000, sample_width |-> 2],
      [len |-> 16000, sample_rate |-> 16000, sample_width |-> 2],
      [len |-> 32000, sample_rate |-> 16000, sample_width |-> 2],
      [len |-> 64000, sample_rate |-> 16000, sample_width |-> 2] }
\* the segments of 1 s and more, and the text that holds the trigger word
LongSegments == {seg \in SegmentShapes : seg.len >= 32000}
TriggerTexts == { <<"a", "b">> }
\* whether the recognizer raises while it evaluates a segment
Failures == {FALSE, TRUE}
\* properties the upstream microphone reports
UpstreamProperties ==
    { [sample_rate_hz |-> 44100, num_channels |-> 2],
      [sample_rate_hz |-> 16000, num_channels |-> 1] }

VARIABLES
    \* what the environment does at most in a run: sessions opened, live
    \* chunks delivered, chunks per historical stream, triggers recognized,
    \* and the segments, texts and recognizer failures the listener meets
    cap,
    \* configuration, set by new()
    trigger_word, microphone_client,
    \* fields of the component
    listener_started, closed,
    last_chunk_timestamp_ns, trigger_detected,
    trigger_timestamp_ns, trigger_segment_duration_ns,
    \* the listener thread: its position and the argument of on_trigger_detected
    lpc, segment_duration_ns,
    \* the generators: position, first_chunk, locals of lines 266-267
    pc, first_chunk, historical,
    \* the historical query each generator has open
    query,
    \* what the consumer received on each output stream
    out,
    \* history: the live chunks each generator read, the end timestamp of the
    \* latest of them that has one, the trigger events, and the event that
    \* last wrote trigger_timestamp_ns / trigger_segment_duration_ns
    reads, latest_end, events, ts_by, dur_by,
    \* the upstream live stream of each generator: not opened, open, ended
    \* or failed
    live,
    \* the last call of listen_callback: its inputs and what it did
    call,
    \* the answer of a get_properties call its caller has not taken yet
    properties

vars == << cap, trigger_word, microphone_client, listener_started, closed,
           last_chunk_timestamp_ns, trigger_detected, trigger_timestamp_ns,
           trigger_segment_duration_ns, lpc, segment_duration_ns, pc,
           first_chunk, historical, query, out, reads, latest_end, events,
           ts_by, dur_by, live, call, properties >>

config == << cap, trigger_word, microphone_client >>
fields == << last_chunk_timestamp_ns, trigger_detected, trigger_timestamp_ns,
             trigger_segment_duration_ns >>
trigger_fields == << trigger_detected, trigger_timestamp_ns,
                     trigger_segment_duration_ns >>
listener_thread == << lpc, segment_duration_ns >>
provenance == << ts_by, dur_by >>

\* ------------------------------------------------------------- pure parts
LowerChar(c) ==
    CASE c = "A" -> "a"
      [] c = "B" -> "b"
      [] OTHER -> c

\* str.lower()
Lower(text) == [i \in 1..Len(text) |-> LowerChar(text[i])]

\* text starts with word
ContainsAtStart(word, text) ==
    /\ Len(word) <= Len(text)
    /\ SubSeq(text, 1, Len(word)) = word

\* word in text
Contains(word, text) ==
    \E i \in 0..(Len(text) - Len(word)) :
        SubSeq(text, i + 1, i + Len(word)) = word

\* segments below one second count as short
IsShortSegmentBelowOneSecond(seg) ==
    seg.len < seg.sample_rate * seg.sample_width

\* no segment counts as short
IsShortSegmentNever(seg) == FALSE

\* segment_duration_seconds < 0.5, for
\* segment_duration_seconds = len(frame_data) / (sample_rate * sample_width)
IsShortSegment(seg) == 2 * seg.len < seg.sample_rate * seg.sample_width

\* int(segment_duration_seconds * 1_000_000_000), in ticks
SegmentDurationNs(seg) ==
    (seg.len * TicksPerSecond) \div (seg.sample_rate * seg.sample_width)

\* recognized_text and trigger_word and trigger_word in recognized_text
IsTrigger(word, recognized_text) ==
    /\ recognized_text # << >>
    /\ word # << >>
    /\ Contains(word, recognized_text)

\* ns / 1_000_000_000, a number of seconds
Seconds(ns) == [num |-> ns, den |-> TicksPerSecond]

\* the chunk a live stream delivers, and the n-th chunk of a historical stream
LiveChunk(s, n, ts) ==
    [kind |-> "live", of |-> <<"session", s>>, n |-> n, ts |-> ts]
HistoricalChunk(q, n) ==
    [kind |-> "hist",
     of |-> <<"window", q.previous_timestamp_ns, q.duration_seconds.num>>,
     n |-> n, ts |-> q.previous_timestamp_ns + n]

NoLocals == [start |-> 0, ts_by |-> 0, dur_by |-> 0]
NoQuery == [open |-> FALSE]
NoCall == [made |-> FALSE]
NoProperties == [returned |-> FALSE]

\* ------------------------------------------------------------------- Init
InitWith(c) ==
    /\ cap = c
    /\ trigger_word \in {Lower(w) : w \in TriggerWords}
    /\ microphone_client \in Microphones
    /\ listener_started = FALSE
    /\ closed = FALSE
    /\ last_chunk_timestamp_ns = 0
    /\ trigger_detected = FALSE
    /\ trigger_timestamp_ns = 0
    /\ trigger_segment_duration_ns = 0
    /\ lpc = "idle"
    /\ segment_duration_ns = 0
    /\ pc = [s \in Sessions |-> "none"]
    /\ first_chunk = [s \in Sessions |-> TRUE]
    /\ historical = [s \in Sessions |-> NoLocals]
    /\ query = [s \in Sessions |-> NoQuery]
    /\ out = [s \in Sessions |-> << >>]
    /\ reads = [s \in Sessions |-> << >>]
    /\ latest_end = 0
    /\ events = << >>
    /\ ts_by = 0
    /\ dur_by = 0
    /\ live = [s \in Sessions |-> "none"]
    /\ call = NoCall
    /\ properties = NoProperties

\* --------------------------------------------------------- the event loop
\* A generator between two suspension points holds the event loop: no other
\* coroutine runs until it reaches its next await or yield.
Running(s) == pc[s] \in {"L262", "L266", "L267"}
\* the loop is also held while a get_properties call is being answered
LoopIdle == (\A s \in Sessions : ~Running(s)) /\ ~properties.returned

\* a replay burst of session s is in flight: its historical stream is open
InBurst(s) == pc[s] \in {"await_hist", "yield_hist"}

\* live chunks read so far, all sessions together
TotalReads == Len(reads[1]) + Len(reads[2])

\* the end timestamp of the last chunk of a live stream that has one
LastEnd(rs) ==
    LET stamped == {i \in 1..Len(rs) : rs[i].ts > 0}
    IN  IF stamped = {} THEN 0
        ELSE rs[CHOOSE i \in stamped : \A j \in stamped : j <= i].ts

\* what the output streams are doing: a replay burst is in flight, or no
\* live chunk has been read yet, or live chunks are being read
Phase ==
    IF \E s \in Sessions : InBurst(s) THEN "burst"
    ELSE IF TotalReads = 0 THEN "start"
    ELSE "live"

\* --------------------------------------------------- the listener thread
\* a timestamp taken from a clock that runs ahead of the audio timestamps
TriggerTimestampFromClock == last_chunk_timestamp_ns + 1

\* line 222: the timestamp recorded for a trigger
TriggerTimestamp == last_chunk_timestamp_ns

\* on_trigger_detected logs at info level only: no call of it, during a
\* burst or not, logs a warning about a dropped trigger
DroppedWithWarning(e) == FALSE

\* what a call of listen_callback did: how often it invoked the recognizer
\* (lines 184-190), whether an exception left it, whether it called
\* on_trigger_detected, and the number of trigger events before it
Called(seg, text, fails, recognitions, raised, triggered) ==
    [made |-> TRUE, seg |-> seg, text |-> text, fails |-> fails,
     recognitions |-> recognitions, raised |-> raised,
     triggered |-> triggered, nevents |-> Len(events)]

\* listen_callback, up to the call of on_trigger_detected.  Nothing in
\* lines 167-207 catches an exception: one raised by the recognizer
\* (lines 184-190) leaves listen_callback for the listener that called it.
ListenCallback(seg, text, fails) ==
    /\ lpc = "idle"
    /\ listener_started
    /\ IF IsShortSegment(seg)
       THEN /\ call' = Called(seg, text, fails, 0, FALSE, FALSE)
            /\ UNCHANGED << listener_thread, events >>
       ELSE IF fails
       THEN /\ call' = Called(seg, text, fails, 1, TRUE, FALSE)
            /\ UNCHANGED << listener_thread, events >>
       ELSE IF IsTrigger(trigger_word, Lower(text))
       THEN /\ Len(events) < cap.triggers
            /\ call' = Called(seg, text, fails, 1, FALSE, TRUE)
            /\ lpc' = "L219"
            /\ segment_duration_ns' = SegmentDurationNs(seg)
            /\ events' = Append(events,
                   [dur |-> SegmentDurationNs(seg), ts |-> -1,
                    latest_end |-> -1, during |-> "",
                    done |-> FALSE, replayed |-> FALSE])
       ELSE /\ call' = Called(seg, text, fails, 1, FALSE, FALSE)
            /\ UNCHANGED << listener_thread, events >>
    /\ UNCHANGED << config, listener_started, closed, fields, pc,
                    first_chunk, historical, query, out, reads, latest_end,
                    provenance, live, properties >>

\* on_trigger_detected, line 219
StoreDuration ==
    /\ lpc = "L219"
    /\ trigger_segment_duration_ns' = segment_duration_ns
    /\ dur_by' = Len(events)
    /\ lpc' = "L222"
    /\ UNCHANGED << config, listener_started, closed, last_chunk_timestamp_ns,
                    trigger_detected, trigger_timestamp_ns,
                    segment_duration_ns, pc, first_chunk, historical, query,
                    out, reads, latest_end, events, ts_by, live, call,
                    properties >>

\* on_trigger_detected, line 222
StoreTimestamp ==
    /\ lpc = "L222"
    /\ trigger_timestamp_ns' = TriggerTimestamp
    /\ ts_by' = Len(events)
    /\ events' = [events EXCEPT ![Len(events)].ts = TriggerTimestamp,
                                ![Len(events)].latest_end = latest_end]
    /\ lpc' = "L223"
    /\ UNCHANGED << config, listener_started, closed, last_chunk_timestamp_ns,
                    trigger_detected, trigger_segment_duration_ns,
                    segment_duration_ns, pc, first_chunk, historical, query,
                    out, reads, latest_end, dur_by, live, call, properties >>

\* on_trigger_detected, line 223, and the return to the listener
SetDetected ==
    /\ lpc = "L223"
    /\ trigger_detected' = TRUE
    /\ events' = [events EXCEPT
                    ![Len(events)].during = Phase,
                    ![Len(events)].done = TRUE]
    /\ lpc' = "idle"
    /\ segment_duration_ns' = 0
    /\ UNCHANGED << config, listener_started, closed, last_chunk_timestamp_ns,
                    trigger_timestamp_ns, trigger_segment_duration_ns, pc,
                    first_chunk, historical, query, out, reads, latest_end,
                    provenance,
                    live, call, properties >>

\* ------------------------------------------------------------- get_audio
\* get_audio: starts the listener on the first call and returns a stream
\* around a generator that has not run yet
GetAudio(s) ==
    /\ pc[s] = "none"
    /\ s <= cap.sessions
    /\ \A r \in Sessions : r < s => pc[r] # "none"
    /\ ~closed
    /\ LoopIdle
    /\ listener_started' = (listener_started \/ microphone_client # "")
    /\ pc' = [pc EXCEPT ![s] = "created"]
    /\ UNCHANGED << config, closed, fields, listener_thread, first_chunk,
                    historical, query, out, reads, latest_end, events,
                    provenance,
                    live, call, properties >>

\* the consumer's first pull: the generator runs to the await of line 248,
\* or returns at once when no microphone is configured
Start(s) ==
    /\ pc[s] = "created"
    /\ LoopIdle
    /\ pc' = [pc EXCEPT ![s] = IF microphone_client = "" THEN "done"
                                ELSE "await_live"]
    /\ live' = [live EXCEPT ![s] = IF microphone_client = "" THEN "none"
                                    ELSE "open"]
    /\ UNCHANGED << config, listener_started, closed, fields, listener_thread,
                    first_chunk, historical, query, out, reads, latest_end,
                    events, provenance, call, properties >>

\* lines 253-254: the high-water-mark after a live chunk with end timestamp ts
HighWaterMark(old, ts) == IF ts > 0 THEN ts ELSE old

\* every live chunk is yielded
YieldsLiveAlways(first) == TRUE

\* no live chunk is yielded
YieldsLiveNever(first) == FALSE

\* lines 257-259: whether the live chunk is yielded
YieldsLive(first) == first

\* lines 251-259: the live stream delivers a chunk, whose end timestamp is
\* unset or not below the ones the stream delivered before
NextLive(s, ts) ==
    /\ pc[s] = "await_live"
    /\ LoopIdle
    /\ TotalReads < cap.live
    /\ ts = 0 \/ ts >= LastEnd(reads[s])
    /\ last_chunk_timestamp_ns' = HighWaterMark(last_chunk_timestamp_ns, ts)
    /\ latest_end' = IF ts = 0 THEN latest_end ELSE ts
    /\ reads' = [reads EXCEPT ![s] =
                    Append(@, [ts |-> ts])]
    /\ IF YieldsLive(first_chunk[s])
       THEN /\ out' = [out EXCEPT ![s] =
                          Append(@, LiveChunk(s, Len(reads[s]) + 1, ts))]
            /\ pc' = [pc EXCEPT ![s] = "yield_live"]
       ELSE /\ out' = out
            /\ pc' = [pc EXCEPT ![s] = "L262"]
    /\ UNCHANGED << config, listener_started, closed, trigger_fields,
                    listener_thread, first_chunk, historical, query, events,
                    provenance,
                    live, call, properties >>

\* line 259: the consumer pulls again after a live chunk
ResumeLive(s) ==
    /\ pc[s] = "yield_live"
    /\ LoopIdle
    /\ first_chunk' = [first_chunk EXCEPT ![s] = FALSE]
    /\ pc' = [pc EXCEPT ![s] = "L262"]
    /\ UNCHANGED << config, listener_started, closed, fields, listener_thread,
                    historical, query, out, reads, latest_end, events,
                    provenance,
                    live, call, properties >>

\* the loop falls through to the trigger check when the live stream ends
AfterLiveEndsChecksTrigger == "L262"

\* lines 251-279: the async for has no else branch and nothing follows it:
\* the generator returns when the live stream ends
AfterLiveEnds == "done"

\* line 251: the live stream ends, and the generator returns
LiveEnds(s) ==
    /\ pc[s] = "await_live"
    /\ LoopIdle
    /\ live' = [live EXCEPT ![s] = "ended"]
    /\ pc' = [pc EXCEPT ![s] = AfterLiveEnds]
    /\ UNCHANGED << config, listener_started, closed, fields, listener_thread,
                    first_chunk, historical, query, out, reads, latest_end,
                    events, provenance, call, properties >>

\* line 251: the live stream raises, and the exception leaves the generator
LiveFails(s) ==
    /\ pc[s] = "await_live"
    /\ LoopIdle
    /\ live' = [live EXCEPT ![s] = "failed"]
    /\ pc' = [pc EXCEPT ![s] = "raised"]
    /\ UNCHANGED << config, listener_started, closed, fields, listener_thread,
                    first_chunk, historical, query, out, reads, latest_end,
                    events, provenance, call, properties >>

\* line 262
CheckTrigger(s) ==
    /\ pc[s] = "L262"
    /\ pc' = [pc EXCEPT ![s] = IF trigger_detected THEN "L266"
                                ELSE "await_live"]
    /\ UNCHANGED << config, listener_started, closed, fields, listener_thread,
                    first_chunk, historical, query, out, reads, latest_end,
                    events, provenance,
                    live, call, properties >>

\* line 266
HistoricalStart == trigger_timestamp_ns - trigger_segment_duration_ns

ComputeStart(s) ==
    /\ pc[s] = "L266"
    /\ historical' = [historical EXCEPT ![s] =
                        [start |-> HistoricalStart, ts_by |-> ts_by,
                         dur_by |-> dur_by]]
    /\ pc' = [pc EXCEPT ![s] = "L267"]
    /\ UNCHANGED << config, listener_started, closed, fields, listener_thread,
                    first_chunk, query, out, reads, latest_end, events,
                    provenance,
                    live, call, properties >>

\* line 267
BufferDurationSeconds == Seconds(trigger_segment_duration_ns)

\* lines 267-272: the historical query is issued
OpenHistorical(s) ==
    /\ pc[s] = "L267"
    /\ query' = [query EXCEPT ![s] =
            [open |-> TRUE,
             previous_timestamp_ns |-> historical[s].start,
             duration_seconds |-> BufferDurationSeconds,
             ts_by |-> historical[s].ts_by,
             start_dur_by |-> historical[s].dur_by,
             dur_by |-> dur_by,
             out_len |-> Len(out[s]),
             nreads |-> Len(reads[s]),
             delivered |-> 0]]
    /\ events' = [e \in 1..Len(events) |->
                    IF e = historical[s].ts_by
                    THEN [events[e] EXCEPT !.replayed = TRUE]
                    ELSE events[e]]
    /\ historical' = [historical EXCEPT ![s] = NoLocals]
    /\ pc' = [pc EXCEPT ![s] = "await_hist"]
    /\ UNCHANGED << config, listener_started, closed, fields, listener_thread,
                    first_chunk, out, reads, latest_end, provenance,
                    live, call, properties >>

\* only the first chunk of the historical stream is yielded
YieldsHistoricalFirst(n) == n = 1

\* line 276: whether the n-th historical chunk is yielded
YieldsHistorical(n) == TRUE

\* the high-water-mark follows the historical chunks too
MarkAfterHistoricalTracked(old, ts) == HighWaterMark(old, ts)

\* lines 275-276: the inner loop yields the chunk and assigns nothing:
\* the high-water-mark after a historical chunk with end timestamp ts
MarkAfterHistorical(old, ts) == old

\* lines 275-276: the historical stream delivers a chunk
NextHistorical(s) ==
    /\ pc[s] = "await_hist"
    /\ LoopIdle
    /\ query[s].delivered < cap.hist
    /\ query' = [query EXCEPT ![s].delivered = @ + 1]
    /\ IF YieldsHistorical(query[s].delivered + 1)
       THEN /\ out' = [out EXCEPT ![s] =
                    Append(@, HistoricalChunk(query[s],
                                              query[s].delivered + 1))]
            /\ pc' = [pc EXCEPT ![s] = "yield_hist"]
       ELSE /\ out' = out
            /\ pc' = pc
    /\ last_chunk_timestamp_ns' =
            MarkAfterHistorical(last_chunk_timestamp_ns,
                HistoricalChunk(query[s], query[s].delivered + 1).ts)
    /\ UNCHANGED << config, listener_started, closed, trigger_fields,
                    listener_thread,
                    first_chunk, historical, reads, latest_end, events,
                    provenance,
                    live, call, properties >>

\* line 276: the consumer pulls again after a historical chunk
ResumeHistorical(s) ==
    /\ pc[s] = "yield_hist"
    /\ LoopIdle
    /\ pc' = [pc EXCEPT ![s] = "await_hist"]
    /\ UNCHANGED << config, listener_started, closed, fields, listener_thread,
                    first_chunk, historical, query, out, reads, latest_end,
                    events, provenance,
                    live, call, properties >>

\* the historical stream ends and the flag is left as it is
HistoricalEndsKeepsFlag(s) ==
    /\ pc[s] = "await_hist"
    /\ LoopIdle
    /\ query' = [query EXCEPT ![s] = NoQuery]
    /\ pc' = [pc EXCEPT ![s] = "await_live"]
    /\ UNCHANGED << config, listener_started, closed, fields,
                    listener_thread, first_chunk, historical, out, reads,
                    latest_end, events, provenance, live, call, properties >>

\* lines 275-279: the historical stream ends
HistoricalEnds(s) ==
    /\ pc[s] = "await_hist"
    /\ LoopIdle
    /\ trigger_detected' = FALSE
    /\ query' = [query EXCEPT ![s] = NoQuery]
    /\ pc' = [pc EXCEPT ![s] = "await_live"]
    /\ UNCHANGED << config, listener_started, closed, last_chunk_timestamp_ns,
                    trigger_timestamp_ns, trigger_segment_duration_ns,
                    listener_thread, first_chunk, historical, out, reads,
                    latest_end, events, provenance,
                    live, call, properties >>

\* the historical query or stream raises and the flag is cleared on the way
\* out
HistoricalFailsResets(s) ==
    /\ pc[s] = "await_hist"
    /\ LoopIdle
    /\ trigger_detected' = FALSE
    /\ query' = [query EXCEPT ![s] = NoQuery]
    /\ pc' = [pc EXCEPT ![s] = "raised"]
    /\ UNCHANGED << config, listener_started, closed, last_chunk_timestamp_ns,
                    trigger_timestamp_ns, trigger_segment_duration_ns,
                    listener_thread, first_chunk, historical, out, reads,
                    latest_end, events, provenance, live, call, properties >>

\* lines 268-275: the historical query or stream raises
HistoricalFails(s) ==
    /\ pc[s] = "await_hist"
    /\ LoopIdle
    /\ query' = [query EXCEPT ![s] = NoQuery]
    /\ pc' = [pc EXCEPT ![s] = "raised"]
    /\ UNCHANGED << config, listener_started, closed, fields, listener_thread,
                    first_chunk, historical, out, reads, latest_end, events,
                    provenance,
                    live, call, properties >>

\* the consumer closes the output stream at a yield
ConsumerCloses(s) ==
    /\ pc[s] \in {"yield_live", "yield_hist"}
    /\ LoopIdle
    /\ query' = [query EXCEPT ![s] = NoQuery]
    /\ pc' = [pc EXCEPT ![s] = "closed"]
    /\ UNCHANGED << config, listener_started, closed, fields, listener_thread,
                    first_chunk, historical, out, reads, latest_end, events,
                    provenance,
                    live, call, properties >>

\* ----------------------------------------------------------------- close
\* close: stops the listener and closes its audio source; the generators
\* are not touched
Close ==
    /\ ~closed
    /\ LoopIdle
    /\ closed' = TRUE
    /\ listener_started' = FALSE
    /\ UNCHANGED << config, fields, listener_thread, pc, first_chunk,
                    historical, query, out, reads, latest_end, events,
                    provenance,
                    live, call, properties >>

\* -------------------------------------------------------- get_properties
\* AudioIn.Properties of 16 kHz mono audio
DefaultProperties == [sample_rate_hz |-> 16000, num_channels |-> 1]

\* the default is returned whatever is configured
GetPropertiesResultDefault(upstream) == DefaultProperties

\* get_properties: the default without a source microphone, and the
\* properties the source microphone reports with one
GetPropertiesResult(upstream) ==
    IF microphone_client = "" THEN DefaultProperties ELSE upstream

\* a client asks for the properties before it opens an output stream
GetProperties(upstream) ==
    /\ LoopIdle
    /\ ~closed
    /\ \A s \in Sessions : pc[s] = "none"
    /\ properties' = [returned |-> TRUE, upstream |-> upstream,
                      result |-> GetPropertiesResult(upstream)]
    /\ UNCHANGED << config, listener_started, closed, fields, listener_thread,
                    pc, first_chunk, historical, query, out, reads,
                    latest_end, events, provenance, live, call >>

\* the client takes the answer
ReturnProperties ==
    /\ properties.returned
    /\ properties' = NoProperties
    /\ UNCHANGED << config, listener_started, closed, fields, listener_thread,
                    pc, first_chunk, historical, query, out, reads,
                    latest_end, events, provenance, live, call >>

Next ==
    \/ \E seg \in cap.segments, text \in cap.texts, fails \in cap.failures :
            ListenCallback(seg, text, fails)
    \/ \E upstream \in UpstreamProperties : GetProperties(upstream)
    \/ ReturnProperties
    \/ StoreDuration
    \/ StoreTimestamp
    \/ SetDetected
    \/ \E s \in Sessions : GetAudio(s)
    \/ \E s \in Sessions : Start(s)
    \/ \E s \in Sessions, ts \in Stamps : NextLive(s, ts)
    \/ \E s \in Sessions : ResumeLive(s)
    \/ \E s \in Sessions : LiveEnds(s)
    \/ \E s \in Sessions : LiveFails(s)
    \/ \E s \in Sessions : CheckTrigger(s)
    \/ \E s \in Sessions : ComputeStart(s)
    \/ \E s \in Sessions : OpenHistorical(s)
    \/ \E s \in Sessions : NextHistorical(s)
    \/ \E s \in Sessions : ResumeHistorical(s)
    \/ \E s \in Sessions : HistoricalEnds(s)
    \/ \E s \in Sessions : HistoricalFails(s)
    \/ \E s \in Sessions : ConsumerCloses(s)
    \/ Close

\* one output stream, beside the listener thread
Init ==
    InitWith([sessions |-> 1, live |-> MaxLive, hist |-> MaxHist,
              triggers |-> Cardinality(Triggers), segments |-> LongSegments,
              texts |-> TriggerTexts, failures |-> {FALSE}])

Spec == Init /\ [][Next]_vars

\* two output streams open at the same time
InitSessions ==
    InitWith([sessions |-> 2, live |-> 2, hist |-> 1, triggers |-> 1,
              segments |-> LongSegments, texts |-> TriggerTexts,
              failures |-> {FALSE}])

SpecSessions == InitSessions /\ [][Next]_vars

\* one output stream, beside a listener thread that meets every segment,
\* every text and a recognizer that may fail
InitListener ==
    InitWith([sessions |-> 1, live |-> 1, hist |-> 1, triggers |-> 1,
              segments |-> SegmentShapes, texts |-> Texts,
              failures |-> Failures])

SpecListener == InitListener /\ [][Next]_vars

\* The output stream makes progress: the upstream live stream delivers its
\* next chunk, the consumer pulls the next item, the event loop runs a
\* generator from one suspension point to the next, and a historical
\* stream, which covers a bounded window, comes to its end.
Progress ==
    /\ WF_vars(\E s \in Sessions, ts \in Stamps : NextLive(s, ts))
    /\ WF_vars(\E s \in Sessions : ResumeLive(s))
    /\ WF_vars(\E s \in Sessions : CheckTrigger(s))
    /\ WF_vars(\E s \in Sessions : ComputeStart(s))
    /\ WF_vars(\E s \in Sessions : OpenHistorical(s))
    /\ WF_vars(\E s \in Sessions : ResumeHistorical(s))
    /\ WF_vars(\E s \in Sessions : HistoricalEnds(s))

\* one output stream whose historical streams deliver one chunk
InitProgress ==
    InitWith([sessions |-> 1, live |-> MaxLive, hist |-> 1,
              triggers |-> Cardinality(Triggers), segments |-> LongSegments,
              texts |-> TriggerTexts, failures |-> {FALSE}])

SpecProgress == InitProgress /\ [][Next]_vars /\ Progress

\* ----------------------------------------------------------------- claims
\* the live chunks on the output stream of session s
LiveOut(s) == SelectSeq(out[s], LAMBDA c : c.kind = "live")

\* the live chunks session s read from its upstream stream
LiveRead(s) == [i \in 1..Len(reads[s]) |-> LiveChunk(s, i, reads[s][i].ts)]

\* the trigger events whose on_trigger_detected has returned
Done == {e \in 1..Len(events) : events[e].done}

\* event e is the trigger the flag stands for: it waits for its replay
Pending(e) == trigger_detected /\ e \in Done /\ \A f \in Done : f <= e

C2_FirstItemIsFirstLiveChunk ==
    \A s \in Sessions :
        /\ out[s] # << >> => /\ reads[s] # << >>
                             /\ out[s][1] = LiveChunk(s, 1, reads[s][1].ts)
        /\ pc[s] \in {"L266", "L267"} => out[s] # << >>
        /\ query[s].open => query[s].out_len >= 1

\* a trigger was detected before the session read its first chunk, and the
\* stream carries the first live chunk and then the replay
C2_Witness ==
    \E s \in Sessions, e \in 1..Len(events) :
        /\ events[e].done
        /\ events[e].during = "start"
        /\ Len(reads[s]) = 1
        /\ Len(out[s]) >= 2
        /\ out[s][1].kind = "live"
        /\ out[s][2].kind = "hist"

\* C3: while a replay burst is in flight, what the stream has emitted since
\* the query was issued is exactly what the historical stream delivered, in
\* that order, and no live chunk was read meanwhile.
C3_BurstIsAtomic ==
    \A s \in Sessions :
        query[s].open =>
            /\ Len(out[s]) = query[s].out_len + query[s].delivered
            /\ \A n \in 1..query[s].delivered :
                   out[s][query[s].out_len + n] = HistoricalChunk(query[s], n)
            /\ Len(reads[s]) = query[s].nreads

C3_Witness ==
    \E s \in Sessions :
        /\ query[s].open
        /\ query[s].delivered >= 2
        /\ pc[s] = "yield_hist"

\* C4, as claimed: every historical query covers the window of one trigger
\* event: its start is T - D and its duration D, for the timestamp T and the
\* segment duration D of that event.
C4_QueryCoversTriggerWindow ==
    \A s \in Sessions :
        query[s].open =>
            \E e \in 1..Len(events) :
                /\ events[e].ts # -1
                /\ query[s].previous_timestamp_ns
                       = events[e].ts - events[e].dur
                /\ query[s].duration_seconds = Seconds(events[e].dur)

\* C5, as claimed: a trigger event that arrived while a replay burst was
\* being emitted has had its replay, or waits for it, or was dropped with a
\* warning.
C5_TriggerDuringBurstNotLost ==
    \A e \in Done :
        events[e].during = "burst" =>
            \/ events[e].replayed
            \/ Pending(e)
            \/ DroppedWithWarning(e)

\* C6, as claimed: at most one replay burst is in flight, and no two replays
\* are started by the same trigger event.
C6_OneBurstInFlight ==
    /\ Cardinality({s \in Sessions : InBurst(s)}) <= 1
    /\ \A s, r \in Sessions :
           (s # r /\ query[s].open /\ query[r].open)
               => query[s].ts_by # query[r].ts_by

\* C7: the timestamp recorded for a trigger is the high-water-mark at that
\* moment, which is the end timestamp of the latest live chunk read that has
\* a nonzero end timestamp (0 before any such chunk).
C7_TriggerTimestampIsHighWaterMark ==
    /\ last_chunk_timestamp_ns = latest_end
    /\ \A e \in 1..Len(events) :
           events[e].ts # -1 => events[e].ts = events[e].latest_end
    /\ ts_by # 0 => trigger_timestamp_ns = events[ts_by].ts

C7_Witness ==
    \E e \in Done : events[e].ts > 0 /\ trigger_timestamp_ns = events[e].ts

\* C8, as claimed: the high-water-mark never decreases.
C8_HighWaterMarkMonotonic ==
    [][last_chunk_timestamp_ns' >= last_chunk_timestamp_ns]_vars

\* C9, as claimed: the timestamp and the duration a historical query is
\* computed from (lines 266 and 267) were written by the same trigger event.
C9_QueryFromOneEvent ==
    \A s \in Sessions :
        query[s].open =>
            /\ query[s].ts_by = query[s].start_dur_by
            /\ query[s].ts_by = query[s].dur_by

\* C10, as claimed: once close() has returned, nothing more is emitted on
\* any output stream.
C10_NothingEmittedAfterClose == [][closed => out' = out]_vars

\* the upstream live stream of session s is over
LiveOver(s) == live[s] \in {"ended", "failed"}

\* C11: when the upstream live stream of an output stream terminates, the
\* output stream terminates with it: the generator is finished from that
\* step on, no item is emitted afterwards, no historical query is open on
\* it (a trigger still pending is not replayed on that stream), and the
\* upstream stream is not opened again.
C11_OutputEndsWithLiveStream ==
    [][\A s \in Sessions :
          /\ LiveOver(s)' =>
                /\ pc'[s] \in {"done", "raised"}
                /\ out'[s] = out[s]
                /\ ~query'[s].open
          /\ LiveOver(s) => live'[s] = live[s]]_vars

\* a live stream ended after chunks were forwarded, with a trigger pending
C11_Witness ==
    \E s \in Sessions :
        /\ live[s] = "ended"
        /\ out[s] # << >>
        /\ trigger_detected

\* C12: a failure of the recognizer while listen_callback evaluates a
\* segment is caught inside listen_callback and counts as "no trigger": no
\* exception leaves listen_callback and on_trigger_detected is not called.
C12_RecognitionFailureAbsorbed ==
    (call.made /\ call.recognitions > 0 /\ call.fails) =>
        /\ ~call.raised
        /\ ~call.triggered

\* the same letter, in either case
SameLetter(a, b) ==
    \/ a = b
    \/ <<a, b>> \in {<<"a", "A">>, <<"A", "a">>, <<"b", "B">>, <<"B", "b">>}

\* word occurs in text as a run of adjacent characters, whatever the case
OccursIgnoringCase(word, text) ==
    \E i \in 1..Len(text) :
        /\ i + Len(word) - 1 <= Len(text)
        /\ \A k \in 1..Len(word) : SameLetter(word[k], text[i + k - 1])

\* C13: a segment the recognizer has evaluated triggers exactly when the
\* trigger word is not empty, the recognized text is not empty, and the
\* trigger word occurs in the recognized text as a contiguous substring,
\* compared without regard to case.
C13_TriggersIffWordInText ==
    (call.made /\ call.recognitions = 1 /\ ~call.raised) =>
        (call.triggered <=>
            /\ trigger_word # << >>
            /\ call.text # << >>
            /\ OccursIgnoringCase(trigger_word, call.text))

\* a text that holds the trigger word in another case, after another
\* character, has triggered
C13_Witness ==
    /\ call.made
    /\ call.triggered
    /\ call.text = <<"x", "A", "B">>
    /\ trigger_word = <<"a", "b">>

\* a segment of less than half a second: len / (rate * width) < 1/2
BelowHalfSecond(seg) == 2 * seg.len < seg.sample_rate * seg.sample_width

\* C14 (as stated): the recognizer is invoked exactly once for every segment
\* handed to listen_callback, whatever the segment's length.
C14_RecognizedExactlyOnce ==
    call.made => call.recognitions = 1

\* C14 (amended): the recognizer is invoked exactly once for every segment
\* of half a second or more handed to listen_callback, and not at all for a
\* shorter segment.
C14_RecognizedOnceUnlessShort ==
    call.made =>
        call.recognitions = IF BelowHalfSecond(call.seg) THEN 0 ELSE 1

\* a segment of exactly half a second went through the recognizer once
C14_Witness ==
    /\ call.made
    /\ 2 * call.seg.len = call.seg.sample_rate * call.seg.sample_width
    /\ call.recognitions = 1

\* C17: a segment shorter than 0.5 s is ignored: the call of listen_callback
\* returns without invoking the recognizer and without calling
\* on_trigger_detected, and leaves trigger_detected, trigger_timestamp_ns and
\* trigger_segment_duration_ns as they were, whatever the segment holds.
C17_ShortSegmentIgnored ==
    [][(call' # call /\ BelowHalfSecond(call'.seg)) =>
          /\ call'.recognitions = 0
          /\ ~call'.raised
          /\ ~call'.triggered
          /\ lpc' = "idle"
          /\ UNCHANGED << trigger_detected, trigger_timestamp_ns,
                          trigger_segment_duration_ns, events >>]_vars

\* a short segment that holds the trigger word was handed over and ignored
C17_Witness ==
    /\ call.made
    /\ BelowHalfSecond(call.seg)
    /\ trigger_word = <<"a", "b">>
    /\ call.text = <<"a", "b">>
    /\ ~call.fails
    /\ ~call.triggered
    /\ events = << >>

\* C15: get_properties returns the default, a sample rate of 16000 and one
\* channel, when no source microphone is configured, and otherwise the
\* properties the source microphone reports.
C15_PropertiesDefaultOrUpstream ==
    properties.returned =>
        /\ microphone_client = "" =>
              /\ properties.result.sample_rate_hz = 16000
              /\ properties.result.num_channels = 1
        /\ microphone_client # "" =>
              properties.result = properties.upstream

\* a configured source microphone reported properties that differ from the
\* default, and get_properties returned them
C15_Witness ==
    /\ properties.returned
    /\ microphone_client # ""
    /\ properties.upstream.sample_rate_hz = 44100
    /\ properties.result.sample_rate_hz = 44100

\* session s will run the trigger check of line 262 again: it is on its way
\* to the check, or it waits for a live chunk the upstream still delivers
WillCheck(s) ==
    \/ pc[s] \in {"yield_live", "L262", "L266", "L267"}
    \/ pc[s] = "await_live" /\ TotalReads < cap.live

\* the output stream of session s is over
StreamOver(s) == pc[s] \in {"done", "raised", "closed"}

C18_OnlyLiveChunksMoveHighWaterMark ==
    [][/\ last_chunk_timestamp_ns' # last_chunk_timestamp_ns =>
              \E s \in Sessions :
                  /\ pc[s] = "await_live"
                  /\ Len(reads'[s]) = Len(reads[s]) + 1
       /\ (\E s \in Sessions :
              InBurst(s) /\ (out'[s] # out[s] \/ query'[s] # query[s])) =>
              last_chunk_timestamp_ns' = last_chunk_timestamp_ns
       /\ lpc' # lpc =>
              last_chunk_timestamp_ns' = last_chunk_timestamp_ns]_vars

\* a replay burst has emitted a chunk whose timestamp is set and differs
\* from the high-water-mark, which a live chunk had set
C18_Witness ==
    \E s \in Sessions :
        /\ InBurst(s)
        /\ query[s].delivered >= 1
        /\ last_chunk_timestamp_ns > 0
        /\ last_chunk_timestamp_ns = latest_end
        /\ out[s][Len(out[s])].kind = "hist"
        /\ out[s][Len(out[s])].ts > 0
        /\ out[s][Len(out[s])].ts # last_chunk_timestamp_ns

\* C19: trigger_detected is reset to false only by the forwarding loop, at
\* the end of a historical stream all of whose chunks were emitted; a step
\* that aborts a burst (the historical query or stream raises, the consumer
\* stops in the middle of the burst) leaves trigger_detected,
\* trigger_timestamp_ns and trigger_segment_duration_ns as they were, so
\* that the trigger stays pending for the next get_audio session.
C19_ResetOnlyAfterWholeBurst ==
    [][/\ (trigger_detected /\ ~trigger_detected') =>
              \E s \in Sessions :
                  /\ pc[s] = "await_hist"
                  /\ pc'[s] = "await_live"
                  /\ Len(out[s]) = query[s].out_len + query[s].delivered
                  /\ out'[s] = out[s]
       /\ \A s \in Sessions :
              (InBurst(s) /\ pc'[s] \in {"raised", "closed"}) =>
                  UNCHANGED << trigger_detected, trigger_timestamp_ns,
                               trigger_segment_duration_ns >>]_vars

\* the consumer of one session stopped in the middle of a burst, and another
\* session has issued the query for the same window after its first live
\* chunk, which it emitted
C19_Witness ==
    \E s, r \in Sessions :
        /\ pc[s] = "closed"
        /\ out[s] # << >>
        /\ out[s][Len(out[s])].kind = "hist"
        /\ query[r].open
        /\ query[r].nreads = 1
        /\ out[r] = << LiveChunk(r, 1, reads[r][1].ts) >>
        /\ out[s][Len(out[s])].of =
               <<"window", query[r].previous_timestamp_ns,
                 query[r].duration_seconds.num>>

\* C20: every historical query has a valid window: its start, trigger
\* timestamp minus segment duration, is not negative, and its end does not
\* exceed the high-water-mark, also for a trigger detected while the
\* high-water-mark is still 0.
C20_QueryWindowValid ==
    \A s \in Sessions :
        query[s].open =>
            /\ query[s].previous_timestamp_ns >= 0
            /\ query[s].previous_timestamp_ns + query[s].duration_seconds.num
                   <= last_chunk_timestamp_ns

====
